---- MODULE Spec2Model ----
(***************************************************************************)
(* Parameter space noise (machin/frame/noise/param_space_noise.py):        *)
(* the adaptive standard deviation controller AdaptiveParamNoise, the      *)
(* perturbation hooks built by _gen_perturb_hook and the session set up by *)
(* perturb_model.                                                          *)
(*                                                                         *)
(* Numbers.  Python floats are modelled as exact rationals <<num, den>>    *)
(* in lowest terms with den > 0 (rounding is abstracted).  A tensor is     *)
(* modelled by one element.  A parameter value is the formal sum           *)
(*     base + SUM { k * m : <<m, k>> \in terms }                           *)
(* of an integer and integer multiples of noise magnitudes m, so that      *)
(* "value + sample * stddev" is computed exactly for every stddev.         *)
(*                                                                         *)
(* Storage.  Tensor.set_(src) makes the live parameter share the storage   *)
(* of src.  alias[p] names the snapshot entry whose storage the live       *)
(* parameter p currently shares ("org", "noisy") or "none"; an in-place    *)
(* write to the live parameter writes that snapshot entry too.             *)
(***************************************************************************)
EXTENDS Integers, Sequences, FiniteSets, TLC

\* ------------------------------------------------------------------ bounds
MaxCalls == 3
MaxUpdates == 1
MaxAdapt == 3

\* ------------------------------------------------------------- rationals
Abs(a) == IF a < 0 THEN -a ELSE a

RECURSIVE GCD(_, _)
GCD(a, b) == IF b = 0 THEN a ELSE GCD(b, a % b)

Norm(n, d) == LET g == GCD(Abs(n), d) IN <<n \div g, d \div g>>

Zero == <<0, 1>>
One == <<1, 1>>

\* x * y, cancelling crosswise before multiplying
RMul(x, y) ==
    IF x[1] = 0 \/ y[1] = 0 THEN Zero
    ELSE LET g1 == GCD(Abs(x[1]), y[2])
             g2 == GCD(Abs(y[1]), x[2])
         IN <<(x[1] \div g1) * (y[1] \div g2), (x[2] \div g2) * (y[2] \div g1)>>

\* 1 / y for y # 0
RInv(y) == IF y[1] > 0 THEN <<y[2], y[1]>> ELSE <<-y[2], -y[1]>>

RDiv(x, y) == RMul(x, RInv(y))

RSub(x, y) == Norm(x[1] * y[2] - y[1] * x[2], x[2] * y[2])

RAbs(x) == <<Abs(x[1]), x[2]>>

RGt(x, y) == x[1] * y[2] > y[1] * x[2]

\* --------------------------------------------------------- tensor values
IntValue(b) == [base |-> b, terms |-> {}]

\* value + u, in place
AddInt(v, u) == [v EXCEPT !.base = @ + u]

Coef(v, m) == IF \E t \in v.terms : t[1] = m
              THEN (CHOOSE t \in v.terms : t[1] = m)[2]
              ELSE 0

\* value + sample * m
AddScaled(v, sample, m) ==
    LET k == Coef(v, m) + sample
        rest == {t \in v.terms : t[1] # m}
    IN [v EXCEPT !.terms = IF k = 0 THEN rest ELSE rest \cup {<<m, k>>}]

\* ---------------------------------------------------------- the model
\* module.named_parameters() of the example model t.nn.Linear, in order
ParamOrder == <<"weight", "bias">>
Params == {ParamOrder[i] : i \in DOMAIN ParamOrder}
NumParams == Len(ParamOrder)
Index(p) == CHOOSE i \in DOMAIN ParamOrder : ParamOrder[i] = p

\* the clean values the example model starts from
InitialParams == [p \in Params |-> IF p = "weight" THEN 0 ELSE 1]
NoiseSamples == {-1, 1}
Grads == {1}
Outputs == {<<0, 1>>, <<1, 2>>, <<1, 1>>}
Distances == {<<2, 5>>, <<1, 2>>, <<3, 5>>}

Tags == {"with_noise", "without_noise"}
NoOutput == <<-1, 1>>
Empty == <<>>

\* defaults of AdaptiveParamNoise.__init__ and perturb_model
DefaultInitialStddev == <<1, 10>>
DefaultAdoptionCoefficient == <<101, 100>>
DefaultDesiredActionStddev == <<1, 2>>

VARIABLES
    live,             \* module.named_parameters(): name -> value
    alias,            \* name -> "none" | "org" | "noisy" (shared storage)
    org_params,       \* closure dict of _gen_perturb_hook
    noisy_params,     \* closure dict of _gen_perturb_hook
    perturb_switch,
    reset_switch,
    tmp_action,       \* closure dict of perturb_model: tag -> output
    param_noise_spec, \* the AdaptiveParamNoise object
    hook_handles,     \* the hooks registered on the model
    deregistered,     \* deregister() has been called
    pc,               \* position inside model(...): idle, pre_hook, forward, adjust_hook
    output,           \* output of forward() on its way to the forward hook
    raised,           \* exception raised by the last operation, or "none"
    lastOp,           \* the last operation or step that ran
    branch,           \* branch taken by the last perturb_pre_hook
    dist_arg,         \* argument of the last adapt() call
    ret,              \* value returned by the last get_dev() call
    nCalls, nAdapt, nUpdates,
    clean,            \* the caller's clean values: initial values plus updates
    disciplined,      \* every optimizer step so far came right after reset()
    noise_generate_function, \* perturb_model argument: "None" or "custom"
    nGrow,            \* number of adapt() calls that took the increase branch
    after_update      \* an optimizer step came right after reset() and no
                      \* perturbing pre hook has run since

vars == <<live, alias, org_params, noisy_params, perturb_switch, reset_switch,
          tmp_action, param_noise_spec, hook_handles, deregistered, pc, output,
          raised, lastOp, branch, dist_arg, ret, nCalls, nAdapt, nUpdates,
          clean, disciplined, noise_generate_function, nGrow, after_update>>

sessionVars == <<live, alias, org_params, noisy_params, perturb_switch,
                 reset_switch, tmp_action, hook_handles, deregistered, pc, output,
                 branch, nCalls, nUpdates, clean, disciplined,
                 noise_generate_function, after_update>>

\* ------------------------------------------------- AdaptiveParamNoise
AdaptiveParamNoise(initial_stddev, desired_action_stddev, adoption_coefficient) ==
    [initial_stddev |-> initial_stddev,
     desired_action_stddev |-> desired_action_stddev,
     adoption_coefficient |-> adoption_coefficient,
     current_stddev |-> initial_stddev]

\* mutant: shrinks already when distance = desired_action_stddev
adapt_ge(self, distance) ==
    IF ~RGt(self.desired_action_stddev, distance)
    THEN [self EXCEPT !.current_stddev = RDiv(@, self.adoption_coefficient)]
    ELSE [self EXCEPT !.current_stddev = RMul(@, self.adoption_coefficient)]

\* mutant: the magnitude is kept at or above its initial value
adapt_clamped(self, distance) ==
    LET next == IF RGt(distance, self.desired_action_stddev)
                THEN RDiv(self.current_stddev, self.adoption_coefficient)
                ELSE RMul(self.current_stddev, self.adoption_coefficient)
    IN [self EXCEPT !.current_stddev =
            IF RGt(self.initial_stddev, next) THEN self.initial_stddev ELSE next]

adapt(self, distance) ==
    IF RGt(distance, self.desired_action_stddev)
    THEN [self EXCEPT !.current_stddev = RDiv(@, self.adoption_coefficient)]
    ELSE [self EXCEPT !.current_stddev = RMul(@, self.adoption_coefficient)]

get_dev(self) == self.current_stddev

\* 1 when adapt(distance) takes the increase branch (line 57), else 0
Grows(self, distance) ==
    IF RGt(distance, self.desired_action_stddev) THEN 0 ELSE 1

\* ---------------------------------------------------- _gen_perturb_hook
\* index of the first parameter without an entry in dict d (NumParams + 1: none)
FirstMissing(d) ==
    IF \A p \in Params : p \in DOMAIN d THEN NumParams + 1
    ELSE CHOOSE i \in DOMAIN ParamOrder :
            /\ ParamOrder[i] \notin DOMAIN d
            /\ \A j \in 1..(i - 1) : ParamOrder[j] \in DOMAIN d

\* mutant: the entries are copied into the parameters, no storage is shared
SetFrom_copy(d, which) ==
    LET k == FirstMissing(d) IN
    /\ live' = [p \in Params |-> IF Index(p) < k THEN d[p] ELSE live[p]]
    /\ alias' = [p \in Params |-> IF Index(p) < k THEN "none" ELSE alias[p]]
    /\ raised' = IF k <= NumParams THEN "KeyError" ELSE "none"

\* for name, value in named_parameters(): value.set_(d[name])
SetFrom(d, which) ==
    LET k == FirstMissing(d) IN
    /\ live' = [p \in Params |-> IF Index(p) < k THEN d[p] ELSE live[p]]
    /\ alias' = [p \in Params |-> IF Index(p) < k THEN which ELSE alias[p]]
    /\ raised' = IF k <= NumParams THEN "KeyError" ELSE "none"

\* mutant: the reset switch read the wrong way round
UseGenerated_inverted == DOMAIN noisy_params # {} /\ reset_switch

\* line 82: reuse the generated noisy parameters
UseGenerated == DOMAIN noisy_params # {} /\ ~reset_switch

\* mutant: the sample scaled by the initial magnitude, not the current one
param_noise_gen_initial(sample) == <<sample, param_noise_spec.initial_stddev>>

\* param_noise_gen: gen(device) * param_noise_spec.get_dev()
param_noise_gen(sample) == <<sample, get_dev(param_noise_spec)>>

\* lines 89-97: snapshot, add noise in place, snapshot again
GenerateNoisy(samples) ==
    /\ org_params' = [p \in Params |-> live[p]]
    /\ live' = [p \in Params |->
                  LET n == param_noise_gen(samples[p])
                  IN AddScaled(live[p], n[1], n[2])]
    /\ noisy_params' = live'
    /\ alias' = [p \in Params |-> "none"]
    /\ raised' = "none"

\* lines 84-86: use generated noisy parameters
UseNoisyBranch ==
    /\ SetFrom(noisy_params, "noisy")
    /\ branch' = "reuse"
    /\ UNCHANGED <<org_params, noisy_params>>

\* mutant: the abort rolls the noised parameters back
GenerateAbort_atomic(samples, k) ==
    /\ org_params' = [p \in {q \in Params : Index(q) <= k} |-> live[p]]
    /\ live' = live
    /\ noisy_params' = [p \in {q \in Params : Index(q) < k} |-> live[p]]
    /\ alias' = [p \in Params |-> "none"]
    /\ raised' = "RuntimeError"

\* lines 89-97 when the sample of noise_generate_function does not fit
\* parameter number k: the in-place add of line 94 raises before it writes
GenerateAbort(samples, k) ==
    /\ org_params' = [p \in {q \in Params : Index(q) <= k} |-> live[p]]
    /\ live' = [p \in Params |->
                  IF Index(p) < k
                  THEN LET n == param_noise_gen(samples[p])
                       IN AddScaled(live[p], n[1], n[2])
                  ELSE live[p]]
    /\ noisy_params' = [p \in {q \in Params : Index(q) < k} |-> live'[p]]
    /\ alias' = [p \in Params |-> "none"]
    /\ raised' = "RuntimeError"

\* the samples a noise generator can return: any for the default one; the
\* custom one returns std_dev * ones(shape), or a tensor of another shape
Samples ==
    IF noise_generate_function = "custom"
    THEN {[p \in Params |-> 1]}
    ELSE [Params -> NoiseSamples]

\* lines 89-97 with the noise of param_noise_gen, or of
\* param_noise_custom_gen_wrapper (lines 249-254), whose samples may not fit
GenerateBranch ==
    /\ \/ \E samples \in Samples : GenerateNoisy(samples)
       \/ /\ noise_generate_function = "custom"
          /\ \E k \in 1..NumParams :
               \E samples \in Samples : GenerateAbort(samples, k)
    /\ branch' = "fresh"

\* mutant: drops the snapshots once the original values are back
UseOriginalBranch_clearing ==
    IF DOMAIN org_params # {}
    THEN /\ SetFrom(org_params, "org")
         /\ branch' = "restore"
         /\ org_params' = Empty
         /\ noisy_params' = Empty
    ELSE /\ branch' = "noop"
         /\ raised' = "none"
         /\ UNCHANGED <<live, alias, org_params, noisy_params>>

\* lines 101-104: use original parameters
UseOriginalBranch ==
    IF DOMAIN org_params # {}
    THEN /\ SetFrom(org_params, "org")
         /\ branch' = "restore"
         /\ UNCHANGED <<org_params, noisy_params>>
    ELSE /\ branch' = "noop"
         /\ raised' = "none"
         /\ UNCHANGED <<live, alias, org_params, noisy_params>>

perturb_pre_hook ==
    /\ pc = "pre_hook"
    /\ IF perturb_switch
       THEN IF UseGenerated THEN UseNoisyBranch ELSE GenerateBranch
       ELSE UseOriginalBranch
    /\ pc' = IF raised' = "none" THEN "forward" ELSE "idle"
    /\ lastOp' = "pre_hook"
    /\ UNCHANGED <<perturb_switch, reset_switch, tmp_action, param_noise_spec,
                   hook_handles, deregistered, output, dist_arg, ret, nCalls,
                   nAdapt, nUpdates, clean, disciplined,
                   noise_generate_function, nGrow>>
    /\ after_update' = (after_update /\ ~perturb_switch)

\* mutant: restores only while the perturb switch is on
perturb_post_hook_switched ==
    /\ IF DOMAIN org_params # {} /\ perturb_switch
       THEN SetFrom(org_params, "org")
       ELSE /\ raised' = "none"
            /\ UNCHANGED <<live, alias>>
    /\ UNCHANGED <<org_params, noisy_params>>

\* mutant: swaps the live values with the original snapshot
perturb_post_hook_swap ==
    /\ IF DOMAIN org_params # {}
       THEN /\ SetFrom(org_params, "org")
            /\ org_params' = live
       ELSE /\ raised' = "none"
            /\ UNCHANGED <<live, alias, org_params>>
    /\ UNCHANGED noisy_params

\* mutant: copies the original values instead of sharing their storage
perturb_post_hook_copy ==
    /\ IF DOMAIN org_params # {}
       THEN /\ live' = [p \in Params |-> IF Index(p) < FirstMissing(org_params)
                                        THEN org_params[p] ELSE live[p]]
            /\ alias' = [p \in Params |-> "none"]
            /\ raised' = IF FirstMissing(org_params) <= NumParams
                         THEN "KeyError" ELSE "none"
       ELSE /\ raised' = "none"
            /\ UNCHANGED <<live, alias>>
    /\ UNCHANGED <<org_params, noisy_params>>

\* mutant: the snapshots are dropped once the original values are back
perturb_post_hook_clearing ==
    IF DOMAIN org_params # {}
    THEN /\ SetFrom(org_params, "org")
         /\ org_params' = Empty
         /\ noisy_params' = Empty
    ELSE /\ raised' = "none"
         /\ UNCHANGED <<live, alias, org_params, noisy_params>>

perturb_post_hook ==
    /\ IF DOMAIN org_params # {}
       THEN SetFrom(org_params, "org")
       ELSE /\ raised' = "none"
            /\ UNCHANGED <<live, alias>>
    /\ UNCHANGED <<org_params, noisy_params>>

\* -------------------------------------------------------- perturb_model
\* distance_func default: t.dist(x, y, 2).mean().item()
distance_func(x, y) == RAbs(RSub(x, y))

\* mutant: the two tags exchanged
AdjustTag_exchanged == IF perturb_switch THEN "without_noise" ELSE "with_noise"

AdjustTag == IF perturb_switch THEN "with_noise" ELSE "without_noise"

\* line 261: both outputs are there
BothPresent(d) == "with_noise" \in DOMAIN d /\ "without_noise" \in DOMAIN d

\* mutant: the forward hook also swaps the original parameters in
perturb_adjust_hook_restoring ==
    /\ pc = "adjust_hook"
    /\ LET stored == [t \in DOMAIN tmp_action \cup {AdjustTag} |->
                        IF t = AdjustTag THEN output ELSE tmp_action[t]]
       IN IF BothPresent(stored)
          THEN LET dist == distance_func(stored["with_noise"],
                                         stored["without_noise"])
               IN /\ tmp_action' = Empty
                  /\ param_noise_spec' = adapt(param_noise_spec, dist)
                  /\ dist_arg' = dist
                  /\ nAdapt' = nAdapt + 1
                  /\ nGrow' = nGrow + Grows(param_noise_spec, dist)
          ELSE /\ tmp_action' = stored
               /\ UNCHANGED <<param_noise_spec, dist_arg, nAdapt, nGrow>>
    /\ pc' = "idle"
    /\ output' = NoOutput
    /\ lastOp' = "adjust_hook"
    /\ perturb_post_hook
    /\ UNCHANGED <<perturb_switch,
                   reset_switch, hook_handles, deregistered, branch, ret, nCalls,
                   nUpdates, clean, disciplined,
                   noise_generate_function, after_update>>

perturb_adjust_hook ==
    /\ pc = "adjust_hook"
    /\ LET stored == [t \in DOMAIN tmp_action \cup {AdjustTag} |->
                        IF t = AdjustTag THEN output ELSE tmp_action[t]]
       IN IF BothPresent(stored)
          THEN LET dist == distance_func(stored["with_noise"],
                                         stored["without_noise"])
               IN /\ tmp_action' = Empty
                  /\ param_noise_spec' = adapt(param_noise_spec, dist)
                  /\ dist_arg' = dist
                  /\ nAdapt' = nAdapt + 1
                  /\ nGrow' = nGrow + Grows(param_noise_spec, dist)
          ELSE /\ tmp_action' = stored
               /\ UNCHANGED <<param_noise_spec, dist_arg, nAdapt, nGrow>>
    /\ pc' = "idle"
    /\ output' = NoOutput
    /\ lastOp' = "adjust_hook"
    /\ raised' = "none"
    /\ UNCHANGED <<live, alias, org_params, noisy_params, perturb_switch,
                   reset_switch, hook_handles, deregistered, branch, ret, nCalls,
                   nUpdates, clean, disciplined,
                   noise_generate_function, after_update>>

\* model(input): nn.Module.__call__ runs the forward pre hooks, forward(),
\* then the forward hooks
ModelCall ==
    /\ pc = "idle"
    /\ nCalls < MaxCalls
    /\ nCalls' = nCalls + 1
    /\ pc' = IF "perturb_pre_hook" \in hook_handles THEN "pre_hook" ELSE "forward"
    /\ lastOp' = "call"
    /\ raised' = "none"
    /\ UNCHANGED <<live, alias, org_params, noisy_params, perturb_switch,
                   reset_switch, tmp_action, param_noise_spec, hook_handles,
                   deregistered, output, branch, dist_arg, ret, nAdapt, nUpdates,
                   clean, disciplined,
                   noise_generate_function, nGrow, after_update>>

ModelForward ==
    /\ pc = "forward"
    /\ IF "perturb_adjust_hook" \in hook_handles
       THEN /\ \E o \in Outputs : output' = o
            /\ pc' = "adjust_hook"
       ELSE /\ output' = NoOutput
            /\ pc' = "idle"
    /\ lastOp' = "forward"
    /\ raised' = "none"
    /\ UNCHANGED <<live, alias, org_params, noisy_params, perturb_switch,
                   reset_switch, tmp_action, param_noise_spec, hook_handles,
                   deregistered, branch, dist_arg, ret, nCalls, nAdapt, nUpdates,
                   clean, disciplined,
                   noise_generate_function, nGrow, after_update>>

\* the returned reset function: for h in reset_hooks: h()
reset ==
    /\ pc = "idle"
    /\ perturb_post_hook
    /\ lastOp' = "reset"
    /\ UNCHANGED <<perturb_switch, reset_switch, deregistered,
                   tmp_action, param_noise_spec, hook_handles, deregistered, pc,
                   output, branch, dist_arg, ret, nCalls, nAdapt, nUpdates,
                   clean, disciplined,
                   noise_generate_function, nGrow, after_update>>

\* mutant: removes the first handle only
deregister_first ==
    /\ pc = "idle"
    /\ hook_handles' = hook_handles \ {"perturb_adjust_hook"}
    /\ deregistered' = TRUE
    /\ lastOp' = "deregister"
    /\ raised' = "none"
    /\ UNCHANGED <<live, alias, org_params, noisy_params, perturb_switch,
                   reset_switch, tmp_action, param_noise_spec, pc, output,
                   branch, dist_arg, ret, nCalls, nAdapt, nUpdates,
                   clean, disciplined,
                   noise_generate_function, nGrow, after_update>>

\* mutant: deregistering also swaps the original parameters in
deregister_restoring ==
    /\ pc = "idle"
    /\ hook_handles' = {}
    /\ deregistered' = TRUE
    /\ lastOp' = "deregister"
    /\ perturb_post_hook
    /\ UNCHANGED <<perturb_switch,
                   reset_switch, tmp_action, param_noise_spec, pc, output,
                   branch, dist_arg, ret, nCalls, nAdapt, nUpdates,
                   clean, disciplined,
                   noise_generate_function, nGrow, after_update>>

\* the returned deregister function: for hh in hook_handles: hh.remove()
deregister ==
    /\ pc = "idle"
    /\ hook_handles' = {}
    /\ deregistered' = TRUE
    /\ lastOp' = "deregister"
    /\ raised' = "none"
    /\ UNCHANGED <<live, alias, org_params, noisy_params, perturb_switch,
                   reset_switch, tmp_action, param_noise_spec, pc, output,
                   branch, dist_arg, ret, nCalls, nAdapt, nUpdates,
                   clean, disciplined,
                   noise_generate_function, nGrow, after_update>>

\* p_switch.on() / p_switch.off()
PerturbSwitchSet ==
    /\ pc = "idle"
    /\ \E b \in BOOLEAN : b # perturb_switch /\ perturb_switch' = b
    /\ lastOp' = "switch"
    /\ raised' = "none"
    /\ UNCHANGED <<live, alias, org_params, noisy_params, reset_switch,
                   tmp_action, param_noise_spec, hook_handles, deregistered, pc,
                   output, branch, dist_arg, ret, nCalls, nAdapt, nUpdates,
                   clean, disciplined,
                   noise_generate_function, nGrow, after_update>>

\* r_switch.on() / r_switch.off()
ResetSwitchSet ==
    /\ pc = "idle"
    /\ \E b \in BOOLEAN : b # reset_switch /\ reset_switch' = b
    /\ lastOp' = "switch"
    /\ raised' = "none"
    /\ UNCHANGED <<live, alias, org_params, noisy_params, perturb_switch,
                   tmp_action, param_noise_spec, hook_handles, deregistered, pc,
                   output, branch, dist_arg, ret, nCalls, nAdapt, nUpdates,
                   clean, disciplined,
                   noise_generate_function, nGrow, after_update>>

\* optim.step(): the caller's in-place update of the live parameters
OptimStep ==
    /\ pc = "idle"
    /\ nUpdates < MaxUpdates
    /\ \E g \in Grads :
         /\ live' = [p \in Params |-> AddInt(live[p], g)]
         /\ org_params' = [p \in DOMAIN org_params |->
                             IF alias[p] = "org" THEN AddInt(org_params[p], g)
                             ELSE org_params[p]]
         /\ noisy_params' = [p \in DOMAIN noisy_params |->
                               IF alias[p] = "noisy" THEN AddInt(noisy_params[p], g)
                               ELSE noisy_params[p]]
         /\ clean' = [p \in Params |-> AddInt(clean[p], g)]
    /\ nUpdates' = nUpdates + 1
    /\ disciplined' = (disciplined /\ lastOp = "reset")
    /\ lastOp' = "optim_step"
    /\ raised' = "none"
    /\ UNCHANGED <<alias, perturb_switch, reset_switch, tmp_action,
                   param_noise_spec, hook_handles, deregistered, pc, output,
                   branch, dist_arg, ret, nCalls, nAdapt,
                   noise_generate_function, nGrow>>
    /\ after_update' = (lastOp = "reset")

\* ------------------------------------------------------- specifications
InitCommon ==
    /\ alias = [p \in Params |-> "none"]
    /\ org_params = Empty
    /\ noisy_params = Empty
    /\ perturb_switch = FALSE
    /\ reset_switch = FALSE
    /\ tmp_action = Empty
    /\ pc = "idle"
    /\ output = NoOutput
    /\ raised = "none"
    /\ lastOp = "init"
    /\ branch = "none"
    /\ dist_arg = Zero
    /\ ret = Zero
    /\ nCalls = 0
    /\ nAdapt = 0
    /\ nUpdates = 0
    /\ disciplined = TRUE
    /\ deregistered = FALSE
    /\ nGrow = 0
    /\ after_update = FALSE

\* the closure state perturb_model sets up
InitSession ==
    /\ InitCommon
    /\ live = [p \in Params |-> IntValue(InitialParams[p])]
    /\ clean = live
    /\ hook_handles = {"perturb_adjust_hook", "perturb_pre_hook"}
    /\ param_noise_spec = AdaptiveParamNoise(DefaultInitialStddev,
                                             DefaultDesiredActionStddev,
                                             DefaultAdoptionCoefficient)

\* the state after perturb_model(model, p_switch, r_switch) returned
Init ==
    /\ InitSession
    /\ noise_generate_function = "None"

\* the state after perturb_model(model, p_switch, r_switch,
\* noise_generate_function=f) returned
InitCustom ==
    /\ InitSession
    /\ noise_generate_function = "custom"

Next ==
    \/ ModelCall
    \/ perturb_pre_hook
    \/ ModelForward
    \/ perturb_adjust_hook
    \/ reset
    \/ deregister
    \/ PerturbSwitchSet
    \/ ResetSwitchSet
    \/ OptimStep

Spec == Init /\ [][Next]_vars

SpecCustom == InitCustom /\ [][Next]_vars

\* the AdaptiveParamNoise object used on its own -------------------------
InitialStddevs == {<<-1, 10>>, <<0, 1>>, <<1, 10>>}
DesiredStddevs == {<<1, 2>>}
AdoptionCoefficients == {<<1, 2>>, <<1, 1>>, <<101, 100>>}

\* the state after AdaptiveParamNoise(i, d, c) returned; no model is perturbed
InitCtl ==
    /\ InitCommon
    /\ live = [p \in Params |-> IntValue(InitialParams[p])]
    /\ clean = live
    /\ hook_handles = {}
    /\ noise_generate_function = "None"
    /\ \E i \in InitialStddevs, d \in DesiredStddevs, c \in AdoptionCoefficients :
         param_noise_spec = AdaptiveParamNoise(i, d, c)

CtlAdapt ==
    /\ nAdapt < MaxAdapt
    /\ \E d \in Distances :
         /\ param_noise_spec' = adapt(param_noise_spec, d)
         /\ dist_arg' = d
         /\ nGrow' = nGrow + Grows(param_noise_spec, d)
    /\ nAdapt' = nAdapt + 1
    /\ lastOp' = "adapt"
    /\ UNCHANGED <<sessionVars, raised, ret>>

CtlGetDev ==
    /\ ret' = get_dev(param_noise_spec)
    /\ lastOp' = "get_dev"
    /\ UNCHANGED <<sessionVars, raised, param_noise_spec, dist_arg, nAdapt, nGrow>>

NextCtl ==
    \/ CtlAdapt
    \/ CtlGetDev

SpecCtl == InitCtl /\ [][NextCtl]_vars

\* ---------------------------------------------------------------- claims
InitialLive == [p \in Params |-> IntValue(InitialParams[p])]

\* C1: after any sequence of pre_evaluate() calls (no optimizer step), a
\* reset restores every parameter to its value before the first call.
C1_ExactRestoration ==
    (lastOp = "reset" /\ nUpdates = 0) => live = InitialLive

\* C2: when every optimizer step comes right after reset_fn(), the live
\* parameters the step is applied to are the clean values (the step adds the
\* same update to both, so they agree after it as well).
C2_UpdatesOnClean ==
    (lastOp = "optim_step" /\ disciplined) => live = clean

EvaluationSteps == {"call", "pre_hook", "forward", "adjust_hook"}

\* C3: with perturb on and force_resample off, once a noisy snapshot exists
\* pre_evaluate() copies it into the live parameters, draws nothing and leaves
\* both snapshots alone; the noisy snapshot changes only by a fresh draw or by
\* the caller's own update, so a restore or a clean evaluation in between
\* does not change what the next reuse yields.
C3_CacheReuse ==
    [][ /\ (lastOp' = "pre_hook" /\ perturb_switch /\ ~reset_switch
               /\ DOMAIN noisy_params # {})
           => /\ live' = noisy_params
              /\ branch' = "reuse"
              /\ raised' = "none"
              /\ UNCHANGED <<org_params, noisy_params, param_noise_spec>>
        /\ (noisy_params' # noisy_params)
           => \/ lastOp' = "optim_step"
              \/ lastOp' = "pre_hook" /\ branch' = "fresh" ]_vars

C3_Witness ==
    /\ lastOp = "pre_hook" /\ branch = "reuse"
    /\ perturb_switch /\ ~reset_switch
    /\ nCalls = 3
    /\ live = noisy_params /\ live # org_params

\* C4: pre_evaluate() with perturb off leaves both snapshots alone; it sets
\* the live parameters to the original snapshot when there is one and changes
\* nothing when there is none; perturb on, then off, gives exactly the clean
\* values at the second evaluation.
C4_PerturbOff ==
    /\ [][ (lastOp' = "pre_hook" /\ ~perturb_switch)
            => /\ UNCHANGED <<org_params, noisy_params>>
               /\ raised' = "none"
               /\ IF DOMAIN org_params # {}
                  THEN live' = org_params
                  ELSE UNCHANGED <<live, alias, tmp_action, param_noise_spec,
                                   hook_handles, perturb_switch, reset_switch>> ]_vars
    /\ []((lastOp = "pre_hook" /\ branch = "restore" /\ nCalls = 2 /\ nUpdates = 0)
            => live = InitialLive)

C4_Witness ==
    /\ lastOp = "pre_hook" /\ branch = "restore" /\ ~perturb_switch
    /\ nCalls = 2 /\ nUpdates = 0
    /\ live = org_params /\ live = InitialLive /\ live # noisy_params

\* C5: reset_fn() sets every live parameter to its entry of the original
\* snapshot when there is one, whatever the switches say, changes no
\* parameter when there is none, and raises nothing.
C5_RestoreUnconditional ==
    [][ lastOp' = "reset"
          => /\ raised' = "none"
             /\ IF DOMAIN org_params # {}
                THEN live' = org_params /\ org_params' = org_params
                ELSE live' = live /\ org_params' = Empty ]_vars

C5_Witness ==
    /\ lastOp = "reset"
    /\ ~perturb_switch /\ reset_switch
    /\ DOMAIN org_params # {}
    /\ live = org_params /\ live # noisy_params

\* C6: a reset right after a reset changes neither the live parameters nor
\* a snapshot nor the controller.
C6_IdempotentRestore ==
    [][ (lastOp = "reset" /\ lastOp' = "reset")
          => UNCHANGED <<live, org_params, noisy_params, param_noise_spec>> ]_vars

C6_Witness ==
    /\ lastOp = "reset"
    /\ DOMAIN org_params # {}
    /\ alias = [p \in Params |-> "org"]
    /\ live = org_params /\ noisy_params # org_params

\* C7: once deregister_fn() has been called no hook is registered again and
\* no step of a model evaluation changes the live parameters, a snapshot, the
\* pending outputs or the controller.
C7_Detachment ==
    [][ deregistered
          => /\ deregistered' /\ hook_handles' = {}
             /\ (lastOp' \in EvaluationSteps
                   => UNCHANGED <<live, org_params, noisy_params, tmp_action,
                                  param_noise_spec>>) ]_vars

C7_Witness ==
    /\ deregistered /\ lastOp = "forward" /\ pc = "idle"
    /\ perturb_switch /\ reset_switch
    /\ DOMAIN noisy_params # {}

\* C8: adapt(distance) divides current_stddev by adoption_coefficient when
\* distance > desired_action_stddev and multiplies it otherwise, equality
\* included, and changes nothing else; get_dev() returns current_stddev and
\* changes nothing.  With 0.1, 0.5, 1.01: adapt(0.6) gives 0.1/1.01 and
\* adapt(0.4) gives 0.101.
C8_ControllerStep ==
    /\ [][ /\ lastOp' = "adapt"
              => /\ IF RGt(dist_arg', param_noise_spec.desired_action_stddev)
                    THEN RMul(param_noise_spec'.current_stddev,
                              param_noise_spec.adoption_coefficient)
                           = param_noise_spec.current_stddev
                    ELSE RDiv(param_noise_spec'.current_stddev,
                              param_noise_spec.adoption_coefficient)
                           = param_noise_spec.current_stddev
                 /\ param_noise_spec'.initial_stddev = param_noise_spec.initial_stddev
                 /\ param_noise_spec'.desired_action_stddev
                      = param_noise_spec.desired_action_stddev
                 /\ param_noise_spec'.adoption_coefficient
                      = param_noise_spec.adoption_coefficient
                 /\ UNCHANGED <<sessionVars, ret>>
           /\ lastOp' = "get_dev"
              => /\ ret' = param_noise_spec.current_stddev
                 /\ UNCHANGED <<param_noise_spec, sessionVars>> ]_vars
    /\ []((/\ nAdapt = 1
           /\ param_noise_spec.initial_stddev = <<1, 10>>
           /\ param_noise_spec.adoption_coefficient = <<101, 100>>)
            => /\ dist_arg = <<3, 5>> => param_noise_spec.current_stddev = <<10, 101>>
               /\ dist_arg = <<2, 5>> => param_noise_spec.current_stddev = <<101, 1000>>
               /\ dist_arg = <<1, 2>> => param_noise_spec.current_stddev = <<101, 1000>>)

C8_Witness ==
    /\ lastOp = "adapt" /\ nAdapt = 1
    /\ dist_arg = param_noise_spec.desired_action_stddev
    /\ param_noise_spec.initial_stddev = <<1, 10>>
    /\ param_noise_spec.current_stddev = <<101, 1000>>

\* C9: no AdaptiveParamNoise object exists with adoption_coefficient <= 1 or
\* initial_stddev <= 0 (its construction is refused).
C9_ValidatedConstruction ==
    /\ RGt(param_noise_spec.adoption_coefficient, One)
    /\ RGt(param_noise_spec.initial_stddev, Zero)

OtherTag(t) == IF t = "with_noise" THEN "without_noise" ELSE "with_noise"

\* C10: adapt() runs exactly at the forward hook that completes a pair,
\* whichever tag came first, with the distance of that pair, and the pending
\* outputs are cleared there; a hook that leaves one tag pending adapts
\* nothing; between evaluations the pending store never holds both tags.
C10_DistancePairing ==
    /\ [][ LET tag == IF perturb_switch THEN "with_noise" ELSE "without_noise"
           IN IF lastOp' = "adjust_hook"
              THEN IF OtherTag(tag) \in DOMAIN tmp_action
                   THEN /\ nAdapt' = nAdapt + 1
                        /\ tmp_action' = Empty
                        /\ dist_arg' = RAbs(RSub(output, tmp_action[OtherTag(tag)]))
                        /\ param_noise_spec' # param_noise_spec
                   ELSE /\ nAdapt' = nAdapt
                        /\ param_noise_spec' = param_noise_spec
                        /\ DOMAIN tmp_action' = {tag}
                        /\ tmp_action'[tag] = output
              ELSE UNCHANGED <<nAdapt, param_noise_spec, tmp_action>> ]_vars
    /\ [](~BothPresent(tmp_action))

C10_Witness ==
    /\ lastOp = "adjust_hook" /\ nAdapt = 1
    /\ tmp_action = Empty
    /\ perturb_switch
    /\ dist_arg = <<1, 2>>

\* C11: an optimizer step applied in place right after reset_fn() is kept:
\* until noise is applied again, every reset_fn() and every pre_evaluate()
\* with perturb off leaves the updated live values as they are.
C11_UpdateKept ==
    [][ (/\ after_update
         /\ \/ lastOp' = "reset"
            \/ lastOp' = "pre_hook" /\ ~perturb_switch)
          => live' = live /\ raised' = "none" ]_vars

C11_Witness ==
    /\ after_update /\ nUpdates = 1
    /\ lastOp = "pre_hook" /\ branch = "restore"
    /\ live = org_params
    /\ \A p \in Params : live[p].base = InitialParams[p] + 1 /\ live[p].terms = {}

\* C12 as claimed: post_evaluate runs inside the evaluation call, so when an
\* evaluation returns and an original snapshot exists the live parameters
\* equal it.
C12_RestoredOnReturn ==
    (lastOp = "adjust_hook" /\ DOMAIN org_params # {}) => live = org_params

\* C12 as amended: an evaluation runs pre_evaluate, forward and the output
\* hook in this order and nothing else (no post_evaluate); when it returns
\* the live parameters are what pre_evaluate left: the noisy snapshot with
\* perturb on, the original snapshot (if any) with perturb off.
C12_EvaluationOrder ==
    /\ [][ /\ lastOp' = "pre_hook" => lastOp = "call"
           /\ lastOp' = "forward"
                => lastOp = IF "perturb_pre_hook" \in hook_handles
                            THEN "pre_hook" ELSE "call"
           /\ lastOp' = "adjust_hook"
                => lastOp = "forward" /\ pc' = "idle" /\ live' = live
           /\ pc # "idle" => lastOp' \in {"pre_hook", "forward", "adjust_hook"}
         ]_vars
    /\ [](lastOp = "adjust_hook"
            => IF perturb_switch
               THEN live = noisy_params /\ live # org_params
               ELSE DOMAIN org_params # {} => live = org_params)

C12_Witness ==
    /\ lastOp = "adjust_hook" /\ pc = "idle"
    /\ perturb_switch
    /\ DOMAIN org_params # {}
    /\ live = noisy_params /\ live # org_params

\* C13: a fresh draw (perturb on and no noisy snapshot, or resample on)
\* replaces both snapshots: original = the live values before the call, and
\* live = noisy = original + one noise sample scaled by the controller's
\* magnitude at the time of the call, for every parameter.
C13_FreshDraw ==
    [][ (/\ lastOp' = "pre_hook"
         /\ perturb_switch
         /\ (DOMAIN noisy_params = {} \/ reset_switch))
          => LET m == param_noise_spec.current_stddev IN
             /\ raised' = "none"
             /\ org_params' = live
             /\ noisy_params' = live'
             /\ DOMAIN live' = Params
             /\ \A p \in Params :
                  /\ live'[p].base = live[p].base
                  /\ \E s \in NoiseSamples :
                        Coef(live'[p], m) = Coef(live[p], m) + s
                  /\ {t \in live'[p].terms : t[1] # m}
                        = {t \in live[p].terms : t[1] # m} ]_vars

C13_Witness ==
    /\ lastOp = "pre_hook" /\ branch = "fresh"
    /\ nAdapt = 1
    /\ param_noise_spec.current_stddev # param_noise_spec.initial_stddev
    /\ org_params # InitialLive
    /\ live = noisy_params
    /\ \A p \in Params :
          /\ Coef(live[p], param_noise_spec.current_stddev)
               # Coef(org_params[p], param_noise_spec.current_stddev)
          /\ org_params[p].terms # {}

\* x * c^e for an integer e of either sign
RECURSIVE RPow(_, _, _)
RPow(x, c, e) ==
    IF e = 0 THEN x
    ELSE IF e > 0 THEN RPow(RMul(x, c), c, e - 1)
    ELSE RPow(RDiv(x, c), c, e + 1)

\* C14: the magnitude is never clamped: after g grow steps and s shrink
\* steps of adapt(), in any order, current = initial * coefficient^(g - s).
C14_NeverClamped ==
    param_noise_spec.current_stddev
        = RPow(param_noise_spec.initial_stddev,
               param_noise_spec.adoption_coefficient,
               nGrow - (nAdapt - nGrow))

C14_Witness ==
    /\ lastOp = "adapt"
    /\ nAdapt = 3 /\ nGrow = 0
    /\ param_noise_spec.initial_stddev = <<1, 10>>
    /\ param_noise_spec.adoption_coefficient = <<101, 100>>
    /\ param_noise_spec.current_stddev = <<100000, 1030301>>

\* C15 as claimed: an in-place update of the live parameters by the caller
\* never changes the original snapshot or the noisy snapshot.
C15_SnapshotsIsolated ==
    [][ lastOp' = "optim_step" => UNCHANGED <<org_params, noisy_params>> ]_vars

\* C15 as amended: a snapshot entry shares the storage of the live parameter
\* that was last set_ to it.  An in-place update right after reset_fn()
\* changes the original snapshot with the live parameters (they stay equal)
\* and not the noisy one; right after a cache-reuse evaluation it changes
\* the noisy snapshot and not the original one; right after a fresh-draw
\* evaluation it changes neither.
C15_SnapshotsShared ==
    [][ lastOp' = "optim_step" =>
          /\ \A p \in DOMAIN org_params :
               org_params'[p] = IF alias[p] = "org" THEN live'[p]
                                ELSE org_params[p]
          /\ \A p \in DOMAIN noisy_params :
               noisy_params'[p] = IF alias[p] = "noisy" THEN live'[p]
                                  ELSE noisy_params[p]
          /\ (lastOp = "reset" /\ DOMAIN org_params # {})
               => /\ org_params' = live' /\ org_params' # org_params
                  /\ noisy_params' = noisy_params
          /\ (lastOp = "adjust_hook" /\ branch = "reuse")
               => /\ noisy_params' = live' /\ noisy_params' # noisy_params
                  /\ org_params' = org_params
          /\ (lastOp = "adjust_hook" /\ branch = "fresh")
               => UNCHANGED <<org_params, noisy_params>> ]_vars

C15_Witness ==
    /\ lastOp = "optim_step" /\ after_update
    /\ DOMAIN noisy_params = Params
    /\ org_params = live
    /\ \A p \in Params : org_params[p] = IntValue(InitialParams[p] + 1)

\* C16: a fresh draw whose noise sample does not fit parameter k aborts the
\* evaluation with an error; the parameters before k keep the noise already
\* added to them, parameter k and the later ones keep their pre-call values
\* (k is the last parameter whose original value was snapshot).
C16_AbortNotAtomic ==
    [][ (lastOp' = "pre_hook" /\ raised' = "RuntimeError")
          => LET m == param_noise_spec.current_stddev IN
             /\ perturb_switch /\ (DOMAIN noisy_params = {} \/ reset_switch)
             /\ pc' = "idle"
             /\ \E k \in 1..NumParams :
                  /\ DOMAIN org_params' = {q \in Params : Index(q) <= k}
                  /\ \A p \in Params :
                     IF Index(p) < k
                     THEN /\ live'[p] # live[p]
                          /\ \E s \in NoiseSamples :
                                live'[p] = AddScaled(live[p], s, m)
                     ELSE live'[p] = live[p] ]_vars

C16_Witness ==
    /\ lastOp = "pre_hook" /\ raised = "RuntimeError" /\ pc = "idle"
    /\ nCalls = 1
    /\ live["weight"] # InitialLive["weight"]
    /\ live["bias"] = InitialLive["bias"]

\* C17: no operation (pre_evaluate, post_evaluate, reset_fn) ever fails
\* because a snapshot entry of some parameter is absent, also not in the
\* states an aborted pre_evaluate() leaves behind.
C17_NoMissingSnapshotFailure == raised # "KeyError"

\* C18: deregister_fn() removes the hooks and changes nothing else (live
\* parameters, snapshots, pending outputs, magnitude), raises nothing, and a
\* second call changes nothing at all; noisy parameters stay as they are
\* until reset_fn(), which still restores the original snapshot.
C18_DeregisterFrame ==
    [][ /\ lastOp' = "deregister"
          => /\ hook_handles' = {}
             /\ raised' = "none"
             /\ UNCHANGED <<live, alias, org_params, noisy_params, tmp_action,
                            param_noise_spec, perturb_switch, reset_switch>>
             /\ deregistered => hook_handles' = hook_handles
        /\ (deregistered /\ lastOp' \notin {"reset", "optim_step"})
          => live' = live
        /\ (deregistered /\ lastOp' = "reset" /\ DOMAIN org_params # {})
          => live' = org_params /\ raised' = "none" ]_vars

C18_Witness ==
    /\ lastOp = "deregister" /\ deregistered
    /\ hook_handles = {}
    /\ tmp_action # Empty
    /\ live = noisy_params /\ live # org_params

\* C19: when an evaluation output is recorded, with-noise means the live
\* parameters equal the noisy snapshot, without-noise means they equal the
\* original snapshot (or none exists), and the without-noise evaluation is
\* one of noise-free parameters.
C19_TagsMatchState ==
    lastOp = "adjust_hook"
      => IF perturb_switch
         THEN live = noisy_params
         ELSE /\ DOMAIN org_params = {} \/ live = org_params
              /\ \A p \in Params : live[p].terms = {}

\* both snapshots empty, or both with an entry for every parameter
Paired(org, noisy) ==
    /\ DOMAIN org = DOMAIN noisy
    /\ DOMAIN org \in {{}, Params}

\* C20 as claimed: after every operation that does not fail the two
\* snapshots hold entries for the same parameters, and no operation empties
\* a snapshot that is not empty.
C20_SnapshotPairing ==
    [][ /\ (/\ lastOp' \in {"pre_hook", "adjust_hook", "reset", "deregister"}
            /\ raised' = "none")
             => Paired(org_params', noisy_params')
        /\ DOMAIN org_params # {} => DOMAIN org_params' # {}
        /\ DOMAIN noisy_params # {} => DOMAIN noisy_params' # {} ]_vars

\* C20 as amended: every operation other than a pre_evaluate() that aborts
\* keeps the snapshots paired and keeps a non-empty snapshot non-empty; an
\* abort at parameter k leaves k original and k - 1 noisy entries, which
\* later operations leave unpaired; the original snapshot is never emptied.
C20_PairingUnlessAborted ==
    [][ /\ (Paired(org_params, noisy_params) /\ raised' # "RuntimeError")
             => Paired(org_params', noisy_params')
        /\ (DOMAIN noisy_params # {} /\ raised' # "RuntimeError")
             => DOMAIN noisy_params' # {}
        /\ DOMAIN org_params # {} => DOMAIN org_params' # {}
        /\ raised' = "RuntimeError"
             => \E k \in 1..NumParams :
                  /\ DOMAIN org_params' = {q \in Params : Index(q) <= k}
                  /\ DOMAIN noisy_params' = {q \in Params : Index(q) < k}
        /\ (~Paired(org_params, noisy_params) /\ raised' = "none")
             => \/ Paired(org_params', noisy_params') /\ branch' = "fresh"
                                                      /\ lastOp' = "pre_hook"
                \/ /\ DOMAIN org_params' = DOMAIN org_params
                   /\ DOMAIN noisy_params' = DOMAIN noisy_params ]_vars

C20_Witness ==
    /\ raised = "none" /\ pc = "idle"
    /\ lastOp \in {"reset", "adjust_hook"}
    /\ nCalls >= 2
    /\ DOMAIN org_params = Params
    /\ DOMAIN noisy_params = {"weight"}

====
